---- MODULE Spec2Model ----
(***************************************************************************)
(* A model of the Ksense healthcare assessment client                      *)
(* (src/src/utils/parseBloodPressure.js): the retrying HTTP helper         *)
(* fetchWithRetry, the three vital-sign classifiers, the alert aggregator  *)
(* computeAlertLists, the pagination driver fetchAllPatients and main.     *)
(*                                                                         *)
(* JavaScript values are tagged records [t |-> <type>, v |-> <value>].     *)
(* Strings are sequences of one-character strings, so that split, trim and *)
(* the string-to-number conversion are computed character by character.    *)
(* Numbers are kept exactly, in hundredths (120 is 12000, 99.6 is 9960).   *)
(***************************************************************************)
EXTENDS Integers, Sequences, FiniteSets, TLC

VARIABLES
    \* fetchWithRetry: one activation
    fr_pc,          \* "idle" | "fetch" (awaiting fetch) | "sleep" (awaiting sleep)
                    \* | "returned" | "thrown"
    fr_req,         \* the request: [method, page]
    maxRetries,     \* parameter maxRetries
    attempt,        \* local attempt
    fr_result,      \* the response returned or the error thrown to the caller
    waits,          \* history: the backoffMs of every sleep started, in order
    requests,       \* history: number of fetch calls issued by this activation
    terminalSeen,   \* history: index of the first request answered by a
                    \* non-success, non-retryable status (0: none yet)
    rejections,     \* history: number of fetch calls that rejected
    lastOutcome,    \* history: the transport's answer to the latest request
    \* main / fetchAllPatients / submitAssessment
    m_pc,           \* "idle" | "awaitPage" | "awaitPace" | "awaitSubmit" | "done" | "failed"
    page,           \* fetchAllPatients: local page
    all,            \* fetchAllPatients: local all
    payload,        \* main: payload (NoValue until computed)
    posts,          \* history: number of POST requests put on the wire
    pagesRequested, \* history: the pages fetchAllPatients called fetchWithRetry for
    pagesFetched,   \* history: the pages whose response was received and parsed
    exitCode,       \* process exit status (0 unless process.exit(1) ran)
    \* the pure functions, applied to drawn inputs
    bp_in, bp_out,  \* bloodPressureRisk: argument and result
    t_in, t_out,    \* temperatureRisk: two arguments and their results
    patients, lists \* computeAlertLists: argument and result

vars == <<fr_pc, fr_req, maxRetries, attempt, fr_result, waits, requests,
          terminalSeen, rejections, lastOutcome, m_pc, page, all, payload, posts,
          pagesRequested, pagesFetched, exitCode,
          bp_in, bp_out, t_in, t_out, patients, lists>>

retryVars == <<fr_pc, fr_req, maxRetries, attempt, fr_result, waits, requests,
               terminalSeen, rejections, lastOutcome>>
mainVars == <<m_pc, page, all, payload, pagesRequested, pagesFetched, exitCode>>
pureVars == <<bp_in, bp_out, t_in, t_out, patients, lists>>

(***************************************************************************)
(* Bounds of the model.                                                    *)
(***************************************************************************)
MaxRetriesBound == 6    \* maxRetries is drawn from 0..MaxRetriesBound
MaxPages == 3           \* the server lets pagination continue below this page
BpMargin == 3           \* readings run from 120-BpMargin to 140+BpMargin (systolic)
                        \* and from 80-BpMargin to 90+BpMargin (diastolic), in halves
TempMargin == 10        \* temperatures run from 99.6 to 101.0, widened by
                        \* TempMargin hundredths on either side
MaxPatients == 3        \* computeAlertLists is given at most MaxPatients records

(***************************************************************************)
(* JavaScript values.                                                      *)
(***************************************************************************)
Undefined == [t |-> "undefined"]
Null == [t |-> "null"]
NaN == [t |-> "nan"]
Infinity == [t |-> "infinity"]
Bool(b) == [t |-> "boolean", v |-> b]
Num(h) == [t |-> "number", v |-> h]         \* h: the number in hundredths
Str(s) == [t |-> "string", v |-> s]         \* s: a sequence of characters
Arr(a) == [t |-> "array", v |-> a]
NoValue == [t |-> "none"]                   \* a variable not assigned yet

Hundredths(n) == n * 100

Min(a, b) == IF a <= b THEN a ELSE b

RECURSIVE Pow2(_)
Pow2(n) == IF n = 0 THEN 1 ELSE 2 * Pow2(n - 1)

(***************************************************************************)
(* fetchWithRetry(url, options, maxRetries = 6).                           *)
(***************************************************************************)
DefaultMaxRetries == 6

\* What fetch can do to one request: resolve with a response, or reject.
Response(status, body) == [t |-> "response", status |-> status, body |-> body]
TransportError == [t |-> "transportError"]

\* res.ok: a status in 200..299
ResOk(res) == res.status >= 200 /\ res.status <= 299

\* res.text().catch(() => ""): the body text, "" when reading it fails
BodyText(res) == IF res.body.t = "text" THEN res.body.v ELSE ""

\* new Error(`Request failed: ${res.status} ${res.statusText} | ${url} | ${text}`)
RequestFailed(res, req) ==
    [t |-> "Error", status |-> res.status, url |-> req, text |-> BodyText(res)]

\* [429, 500, 503].includes(res.status)
Retryable(status) == status \in {429, 500, 503}

\* BudgetExhausted one attempt late
BudgetExhausted_OffByOne(a, m) == a > m

\* attempt >= maxRetries (both in the status branch and in the catch block)
BudgetExhausted(a, m) == a >= m

\* backoffMs without the cap
backoffMs_Uncapped(a) == 500 * Pow2(a)

\* Math.min(8000, 500 * Math.pow(2, attempt))
backoffMs(a) == Min(8000, 500 * Pow2(a))

\* The try block of one loop iteration, once fetch has settled with outcome o:
\* what it does next.  A rejected fetch and the Error built for a failing
\* status are both thrown inside the try block.
TryBlock(o, a, m, req) ==
    IF o.t = "transportError" THEN [do |-> "throw", err |-> o]
    ELSE IF ResOk(o) THEN [do |-> "return", res |-> o]
    ELSE IF ~Retryable(o.status) \/ BudgetExhausted(a, m)
         THEN [do |-> "throw", err |-> RequestFailed(o, req)]
         ELSE [do |-> "backoff"]

\* The catch block, which receives whatever the try block threw.
CatchBlock(err, a, m) ==
    IF BudgetExhausted(a, m) THEN [do |-> "rethrow", err |-> err]
    ELSE [do |-> "backoff"]

\* One whole loop iteration after fetch settled: try block, then catch block.
LoopIteration(o, a, m, req) ==
    LET t == TryBlock(o, a, m, req)
    IN  IF t.do = "throw" THEN CatchBlock(t.err, a, m) ELSE t

\* A call of fetchWithRetry: a fresh activation, about to issue its first fetch.
fetchWithRetry(req, m) ==
    /\ fr_pc' = "fetch"
    /\ fr_req' = req
    /\ maxRetries' = m
    /\ attempt' = 0
    /\ fr_result' = NoValue
    /\ waits' = << >>
    /\ requests' = 0
    /\ terminalSeen' = 0
    /\ rejections' = 0
    /\ lastOutcome' = NoValue

(***************************************************************************)
(* Strings and the string-to-number conversion.                            *)
(***************************************************************************)
Digits == <<"0", "1", "2", "3", "4", "5", "6", "7", "8", "9">>

IsDigit(c) == \E i \in 1..10 : Digits[i] = c
DigitVal(c) == (CHOOSE i \in 1..10 : Digits[i] = c) - 1
IsSpace(c) == c = " "

\* String.prototype.split(sep) for a one-character separator
RECURSIVE Split(_, _)
Split(s, sep) ==
    IF \A i \in 1..Len(s) : s[i] # sep THEN << s >>
    ELSE LET k == CHOOSE i \in 1..Len(s) :
                      s[i] = sep /\ \A j \in 1..(i - 1) : s[j] # sep
         IN  << SubSeq(s, 1, k - 1) >> \o Split(SubSeq(s, k + 1, Len(s)), sep)

\* String.prototype.trim
RECURSIVE Trim(_)
Trim(s) ==
    IF s = << >> THEN s
    ELSE IF IsSpace(s[1]) THEN Trim(Tail(s))
    ELSE IF IsSpace(s[Len(s)]) THEN Trim(SubSeq(s, 1, Len(s) - 1))
    ELSE s

\* the value of a digit string, read left to right
RECURSIVE DigitsValue(_)
DigitsValue(s) ==
    IF s = << >> THEN 0
    ELSE 10 * DigitsValue(SubSeq(s, 1, Len(s) - 1)) + DigitVal(s[Len(s)])

AllDigits(s) == \A i \in 1..Len(s) : IsDigit(s[i])

\* the value in hundredths of integer digits ip and fraction digits fp
DecimalValue(ip, fp) ==
    Hundredths(DigitsValue(ip))
        + (IF Len(fp) = 1 THEN 10 * DigitsValue(fp) ELSE DigitsValue(fp))

\* the literal split at ".": "ddd", "ddd.dd", ".dd" or "ddd." with at most
\* two fraction digits is a number, anything else is NaN
DecimalOfParts(parts) ==
    IF Len(parts) = 1
        THEN IF parts[1] # << >> /\ AllDigits(parts[1])
                 THEN Num(DecimalValue(parts[1], << >>))
             ELSE NaN
    ELSE IF /\ Len(parts) = 2
            /\ AllDigits(parts[1]) /\ AllDigits(parts[2])
            /\ Len(parts[1]) + Len(parts[2]) > 0
            /\ Len(parts[2]) <= 2
        THEN Num(DecimalValue(parts[1], parts[2]))
    ELSE NaN

\* an unsigned decimal literal: its value in hundredths, or NaN
UnsignedDecimal(s) == DecimalOfParts(Split(s, "."))

\* -x for a number value, NaN staying NaN
Negated(x) == IF x.t = "number" THEN Num(0 - x.v) ELSE x

\* the numeric value of a string without surrounding white space
TrimmedToNumber(w) ==
    IF w = << >> THEN Num(0)
    ELSE IF w[1] = "-" THEN
        (IF Tail(w) = <<"I", "n", "f", "i", "n", "i", "t", "y">> THEN Infinity
         ELSE Negated(UnsignedDecimal(Tail(w))))
    ELSE IF w[1] = "+" THEN
        (IF Tail(w) = <<"I", "n", "f", "i", "n", "i", "t", "y">> THEN Infinity
         ELSE UnsignedDecimal(Tail(w)))
    ELSE IF w = <<"I", "n", "f", "i", "n", "i", "t", "y">> THEN Infinity
    ELSE UnsignedDecimal(w)

\* Number(<string>): white space is trimmed, the empty string is 0, a signed
\* decimal literal is its value, "Infinity" is infinite, the rest is NaN.
StringToNumber(s) == TrimmedToNumber(Trim(s))

\* Number(value)
Number(x) ==
    CASE x.t = "undefined" -> NaN
      [] x.t = "null" -> Num(0)
      [] x.t = "boolean" -> Num(IF x.v THEN Hundredths(1) ELSE 0)
      [] x.t = "string" -> StringToNumber(x.v)
      [] OTHER -> x                 \* a number, NaN or Infinity is itself

\* x === ""
IsEmptyString(x) == x.t = "string" /\ x.v = << >>

\* Number.isFinite(x), for x a number value
IsFinite(x) == x.t = "number"

(***************************************************************************)
(* The classifiers.                                                        *)
(***************************************************************************)
\* parseBloodPressure, from the two numbers on: the finiteness test and
\* the result
ParsedReading(systolic, diastolic) ==
    IF ~IsFinite(systolic) \/ ~IsFinite(diastolic) THEN Null
    ELSE [t |-> "object", systolic |-> systolic.v, diastolic |-> diastolic.v]

\* parseBloodPressure, from the two trimmed sides on
ParseSides(sysStr, diaStr) ==
    IF sysStr = << >> \/ diaStr = << >> THEN Null
    ELSE ParsedReading(Number(Str(sysStr)), Number(Str(diaStr)))

\* parseBloodPressure, from bp.split("/") on
ParseParts(parts) ==
    IF Len(parts) # 2 THEN Null
    ELSE ParseSides(Trim(parts[1]), Trim(parts[2]))

\* parseBloodPressure(bp): {systolic, diastolic} or null
parseBloodPressure(bp) ==
    IF bp = Null \/ bp = Undefined THEN Null
    ELSE IF bp.t # "string" THEN Null
    ELSE ParseParts(Split(bp.v, "/"))

\* the four buckets of bloodPressureRisk
BpNormal(s, d) == s < Hundredths(120) /\ d < Hundredths(80)
BpElevated(s, d) == s >= Hundredths(120) /\ s <= Hundredths(129) /\ d < Hundredths(80)
\* BpStage1 with the diastolic range forgotten
BpStage1_SystolicOnly(s, d) == s >= Hundredths(130) /\ s <= Hundredths(139)

BpStage1(s, d) ==
    \/ (s >= Hundredths(130) /\ s <= Hundredths(139))
    \/ (d >= Hundredths(80) /\ d <= Hundredths(89))
BpStage2(s, d) == s >= Hundredths(140) \/ d >= Hundredths(90)

\* the if chain of bloodPressureRisk, from the least severe bucket upwards
BpScore_LowestFirst(s, d) ==
    IF BpNormal(s, d) THEN [score |-> 1, invalid |-> FALSE]
    ELSE IF BpElevated(s, d) THEN [score |-> 2, invalid |-> FALSE]
    ELSE IF BpStage1(s, d) THEN [score |-> 3, invalid |-> FALSE]
    ELSE IF BpStage2(s, d) THEN [score |-> 4, invalid |-> FALSE]
    ELSE [score |-> 0, invalid |-> TRUE]

\* the if chain of bloodPressureRisk on the parsed systolic s, diastolic d
BpScore(s, d) ==
    IF BpStage2(s, d) THEN [score |-> 4, invalid |-> FALSE]
    ELSE IF BpStage1(s, d) THEN [score |-> 3, invalid |-> FALSE]
    ELSE IF BpElevated(s, d) THEN [score |-> 2, invalid |-> FALSE]
    ELSE IF BpNormal(s, d) THEN [score |-> 1, invalid |-> FALSE]
    ELSE [score |-> 0, invalid |-> TRUE]

\* bloodPressureRisk, from parsed on
BpRiskOfParsed(parsed) ==
    IF parsed = Null THEN [score |-> 0, invalid |-> TRUE]
    ELSE BpScore(parsed.systolic, parsed.diastolic)

\* bloodPressureRisk(bp)
bloodPressureRisk(bp) == BpRiskOfParsed(parseBloodPressure(bp))

\* temperatureRisk, from t = Number(temp) on
TempRiskOfNumber(t) ==
    IF ~IsFinite(t) THEN [score |-> 0, invalid |-> TRUE, fever |-> FALSE]
    ELSE IF t.v >= 10100
        THEN [score |-> 2, invalid |-> FALSE, fever |-> t.v >= 9960]
    ELSE IF t.v >= 9960 /\ t.v <= 10090
        THEN [score |-> 1, invalid |-> FALSE, fever |-> t.v >= 9960]
    ELSE [score |-> 0, invalid |-> FALSE, fever |-> t.v >= 9960]

\* temperatureRisk(temp)
temperatureRisk(temp) ==
    IF temp = Null \/ temp = Undefined \/ IsEmptyString(temp)
        THEN [score |-> 0, invalid |-> TRUE, fever |-> FALSE]
    ELSE TempRiskOfNumber(Number(temp))

\* ageRisk, from a = Number(age) on
AgeRiskOfNumber(a) ==
    IF ~IsFinite(a) THEN [score |-> 0, invalid |-> TRUE]
    ELSE IF a.v > Hundredths(65) THEN [score |-> 2, invalid |-> FALSE]
    ELSE [score |-> 1, invalid |-> FALSE]

\* ageRisk(age)
ageRisk(age) ==
    IF age = Null \/ age = Undefined \/ IsEmptyString(age)
        THEN [score |-> 0, invalid |-> TRUE]
    ELSE AgeRiskOfNumber(Number(age))

(***************************************************************************)
(* Inputs of the classifiers.                                              *)
(***************************************************************************)
\* the decimal digits of a natural number, as characters
RECURSIVE NatChars(_)
NatChars(n) ==
    IF n < 10 THEN << Digits[n + 1] >>
    ELSE NatChars(n \div 10) \o << Digits[(n % 10) + 1] >>

\* the shortest decimal literal of a number given in hundredths
DecimalChars(h) ==
    LET int == NatChars(h \div 100)
        frac == h % 100
    IN  IF frac = 0 THEN int
        ELSE IF frac % 10 = 0 THEN int \o <<".">> \o NatChars(frac \div 10)
        ELSE int \o <<".">> \o << Digits[(frac \div 10) + 1] >> \o NatChars(frac % 10)

\* "S/D" for readings given in hundredths
BpString(s, d) == Str(DecimalChars(s) \o <<"/">> \o DecimalChars(d))

BpSystolics == { 50 * k : k \in (2 * (120 - BpMargin))..(2 * (140 + BpMargin)) }
BpDiastolics == { 50 * k : k \in (2 * (80 - BpMargin))..(2 * (90 + BpMargin)) }

BpMalformed ==
    { Undefined, Null, Num(12000), Bool(TRUE),
      Str(<< >>), Str(<<"1", "2", "0">>), Str(<<"/">>),
      Str(<<"1", "5", "0", "/">>), Str(<<"/", "9", "0">>),
      Str(<<"1", "2", "0", "/", " ">>),
      Str(<<"1", "2", "0", "/", "8", "0", "/", "1">>),
      Str(<<"b", "a", "d">>), Str(<<"N", "/", "A">>),
      Str(<<"1", "2", "x", "/", "8", "0">>),
      Str(<<"1", "2", "0", "/", "8", ".", "0", ".">>),
      Str(<<"I", "n", "f", "i", "n", "i", "t", "y", "/", "8", "0">>) }

BpPadded ==
    { Str(<<" ", "1", "2", "5", " ", "/", " ", "8", "5", " ">>),
      Str(<<"1", "1", "0", "/", " ", "7", "0">>),
      Str(<<"-", "5", "/", "7", "0">>),
      Str(<<"1", "2", "9", ".", "2", "5", "/", ".", "5">>) }

BpInputs ==
    { BpString(s, d) : s \in BpSystolics, d \in BpDiastolics }
        \cup BpMalformed \cup BpPadded

TempValues == (9960 - TempMargin)..(10100 + TempMargin)

TempInputs ==
    { Num(h) : h \in TempValues }
        \cup { Str(DecimalChars(h)) : h \in { x \in TempValues : x % 5 = 0 } }
        \cup { Undefined, Null, NaN, Infinity, Str(<< >>), Str(<<" ">>),
               Str(<<"T", "E", "M", "P">>), Num(0 - 500), Num(9800), Num(10400) }

(***************************************************************************)
(* computeAlertLists(patients).                                            *)
(***************************************************************************)
\* a patient record; a field the record lacks is Undefined
Patient(id, bp, temp, age) ==
    [t |-> "object", patient_id |-> id, blood_pressure |-> bp,
     temperature |-> temp, age |-> age]

\* p?.patient_id, p?.blood_pressure, p?.temperature, p?.age
PatientId(p) == IF p = Null \/ p = Undefined THEN Undefined ELSE p.patient_id
PatientBp(p) == IF p = Null \/ p = Undefined THEN Undefined ELSE p.blood_pressure
PatientTemp(p) == IF p = Null \/ p = Undefined THEN Undefined ELSE p.temperature
PatientAge(p) == IF p = Null \/ p = Undefined THEN Undefined ELSE p.age

\* !x
Falsy(x) ==
    CASE x.t \in {"undefined", "null", "nan"} -> TRUE
      [] x.t = "boolean" -> ~x.v
      [] x.t = "number" -> x.v = 0
      [] x.t = "string" -> x.v = << >>
      [] OTHER -> FALSE

\* Set.prototype.add on a Set kept in insertion order
SetAdd(set, x) ==
    IF \E i \in 1..Len(set) : set[i] = x THEN set ELSE Append(set, x)

\* IsHighRisk with the threshold itself left out
IsHighRisk_Strict(total) == total > 4

\* total >= 4
IsHighRisk(total) == total >= 4

\* the body of the for loop after `if (!id) continue`: the three Sets after
\* a patient with identifier id and classifications bp, temp and age
AddPatient(acc, id, bp, temp, age) ==
    [highRisk |->
         IF IsHighRisk(bp.score + temp.score + age.score)
             THEN SetAdd(acc.highRisk, id)
         ELSE acc.highRisk,
     feverPatients |->
         IF temp.fever THEN SetAdd(acc.feverPatients, id)
         ELSE acc.feverPatients,
     dataQualityIssues |->
         IF bp.invalid \/ temp.invalid \/ age.invalid
             THEN SetAdd(acc.dataQualityIssues, id)
         ELSE acc.dataQualityIssues]

\* one iteration of the for loop: the three Sets after patient p
ProcessPatient(acc, p) ==
    IF Falsy(PatientId(p)) THEN acc
    ELSE AddPatient(acc, PatientId(p),
                    bloodPressureRisk(PatientBp(p)),
                    temperatureRisk(PatientTemp(p)),
                    ageRisk(PatientAge(p)))

\* the for loop over patients
RECURSIVE ProcessPatients(_, _)
ProcessPatients(acc, ps) ==
    IF ps = << >> THEN acc
    ELSE ProcessPatients(ProcessPatient(acc, Head(ps)), Tail(ps))

\* the UTF-16 code unit of a character
CodeUnit(c) ==
    CASE IsDigit(c) -> 48 + DigitVal(c)
      [] c = " " -> 32
      [] c = "P" -> 80
      [] c = "p" -> 112
      [] c = "q" -> 113
      [] OTHER -> 120

\* a < b for strings: code unit by code unit, a proper prefix being smaller
RECURSIVE StringLess(_, _)
StringLess(a, b) ==
    IF b = << >> THEN FALSE
    ELSE IF a = << >> THEN TRUE
    ELSE IF CodeUnit(a[1]) # CodeUnit(b[1]) THEN CodeUnit(a[1]) < CodeUnit(b[1])
    ELSE StringLess(Tail(a), Tail(b))

\* the default comparison of Array.prototype.sort, on string elements
SortBefore(x, y) == StringLess(x.v, y.v)

\* one element put in its place in a sorted array (stable)
RECURSIVE SortInsert(_, _)
SortInsert(sorted, x) ==
    IF sorted = << >> THEN << x >>
    ELSE IF SortBefore(x, Head(sorted)) THEN << x >> \o sorted
    ELSE << Head(sorted) >> \o SortInsert(Tail(sorted), x)

RECURSIVE SortFrom(_, _)
SortFrom(sorted, rest) ==
    IF rest = << >> THEN sorted
    ELSE SortFrom(SortInsert(sorted, Head(rest)), Tail(rest))

\* Array.from(set) with the sort left out
ArraySort_Unsorted(set) == set

\* Array.from(set).sort()
ArraySort(set) == SortFrom(<< >>, set)

\* the return statement of computeAlertLists
AlertLists(sets) ==
    [high_risk_patients |-> ArraySort(sets.highRisk),
     fever_patients |-> ArraySort(sets.feverPatients),
     data_quality_issues |-> ArraySort(sets.dataQualityIssues)]

\* computeAlertLists(patients)
computeAlertLists(ps) ==
    AlertLists(ProcessPatients(
                   [highRisk |-> << >>, feverPatients |-> << >>,
                    dataQualityIssues |-> << >>], ps))

\* identifiers and records the aggregator is given
IdP1 == Str(<<"p", "1">>)
IdP2 == Str(<<"p", "2">>)
IdP10 == Str(<<"p", "1", "0">>)

BpOf(s, d) == BpString(Hundredths(s), Hundredths(d))
Text(h) == Str(DecimalChars(h))

PatientPool ==
    { Patient(IdP1, BpOf(150, 95), Text(9800), Text(7000)),
      Patient(IdP2, Str(<<"b", "a", "d">>), Text(9990), Str(<< >>)),
      Patient(IdP10, BpOf(125, 70), Text(9960), Text(4000)),
      Patient(IdP1, BpOf(118, 75), Num(9860), Num(3000)),
      Patient(IdP2, BpOf(135, 85), Text(10150), Num(6600)),
      Patient(IdP10, Undefined, Null, Undefined),
      Patient(IdP10, BpOf(118, 75), Text(10095), Text(7000)),
      Patient(IdP2, BpOf(125, 75), Text(9950), Text(6500)),
      Patient(Str(<< >>), BpOf(135, 85), Text(10150), Num(6600)),
      Patient(Null, Str(<<"b", "a", "d">>), Text(9990), Str(<< >>)),
      Patient(Undefined, BpOf(150, 95), Text(9800), Text(7000)),
      Null }

RECURSIVE SeqsUpTo(_, _)
SeqsUpTo(S, n) ==
    IF n = 0 THEN { << >> }
    ELSE LET shorter == SeqsUpTo(S, n - 1)
         IN  shorter \cup { Append(q, x) : q \in shorter, x \in S }

(***************************************************************************)
(* Requests, response bodies and what the transport can answer.            *)
(***************************************************************************)
\* GET `${BASE_URL}/patients?page=${page}&limit=${limit}`
GetPatients(p) ==
    [method |-> "GET", path |-> "patients", page |-> p, body |-> NoValue]

\* POST `${BASE_URL}/submit-assessment` with body JSON.stringify(payload)
PostSubmit(pl) ==
    [method |-> "POST", path |-> "submit-assessment", page |-> 0, body |-> pl]

JsonBody(v) == [t |-> "json", v |-> v]
TextBody(s) == [t |-> "text", v |-> s]
UnreadableBody == [t |-> "unreadable"]

\* the records the listing endpoint serves
RecordA == Patient(IdP2, BpOf(135, 85), Text(10150), Num(6600))
RecordB == Patient(IdP10, Undefined, Null, Undefined)

\* the data field: malformed, or an array (a null body has no data at all)
PageDataFields ==
    { Str(<<"x">>), Arr(<< >>), Arr(<< RecordA >>), Arr(<< RecordB >>) }

\* totalPages as the endpoint reports it: missing, 0, 1 or the last page
TotalPagesFields == { Undefined, Num(0), Num(Hundredths(1)), Num(Hundredths(MaxPages)) }

PaginationFields ==
    { Undefined }
        \cup { [t |-> "object", hasNext |-> h, totalPages |-> n] :
                 h \in { Undefined, Bool(TRUE), Bool(FALSE), Str(<<"x">>) },
                 n \in TotalPagesFields }

PageJsons ==
    { Null }
        \cup { [t |-> "object", data |-> d, pagination |-> g] :
                 d \in PageDataFields, g \in PaginationFields }

\* json?.data, json?.pagination, pagination?.hasNext, pagination?.totalPages
JsonData(json) == IF json = Null \/ json = Undefined THEN Undefined ELSE json.data
JsonPagination(json) ==
    IF json = Null \/ json = Undefined THEN Undefined ELSE json.pagination
PaginationHasNext(g) == IF g = Null \/ g = Undefined THEN Undefined ELSE g.hasNext
PaginationTotalPages(g) ==
    IF g = Null \/ g = Undefined THEN Undefined ELSE g.totalPages

\* page < (pagination?.totalPages || page)
PageBelowTotal(p, g) ==
    LET tp == PaginationTotalPages(g)
        rhs == Number(IF Falsy(tp) THEN Num(Hundredths(p)) ELSE tp)
    IN  IsFinite(rhs) /\ Hundredths(p) < rhs.v

\* hasNext with <= in place of <
HasNext_Inclusive(p, json) ==
    LET g == JsonPagination(json)
        h == PaginationHasNext(g)
        tp == Number(PaginationTotalPages(g))
    IN  IF h.t = "boolean" THEN h.v
        ELSE IsFinite(tp) /\ Hundredths(p) <= tp.v

\* const hasNext = typeof pagination?.hasNext === "boolean"
\*     ? pagination.hasNext : page < (pagination?.totalPages || page)
HasNext(p, json) ==
    LET g == JsonPagination(json)
        h == PaginationHasNext(g)
    IN  IF h.t = "boolean" THEN h.v ELSE PageBelowTotal(p, g)

\* Array.isArray(json?.data) ? json.data : []
DataOf(json) ==
    LET d == JsonData(json)
    IN  IF d.t = "array" THEN d.v ELSE << >>

SubmitJson == [t |-> "object", success |-> TRUE]

\* the answers that never succeed
FailureOutcomes ==
    { Response(404, TextBody("not found")),
      Response(429, TextBody("rate limited")),
      Response(500, UnreadableBody),
      Response(503, TextBody("unavailable")),
      TransportError }

\* The successful answers to a request.  The listing endpoint lets the
\* pagination go on only below page MaxPages.
SuccessOutcomes(req) ==
    IF req.method = "GET"
        THEN { Response(200, JsonBody(j)) :
                   j \in { x \in PageJsons : req.page < MaxPages \/ ~HasNext(req.page, x) } }
                 \cup { Response(200, TextBody("<html>")) }
    ELSE { Response(200, JsonBody(SubmitJson)), Response(200, TextBody("<html>")) }

Outcomes(req) == FailureOutcomes \cup SuccessOutcomes(req)

(***************************************************************************)
(* fetchWithRetry: the steps of an activation.                             *)
(***************************************************************************)
\* The awaited fetch settles with outcome o, and the loop runs on to its
\* next await or to its exit.
FetchSettles ==
    /\ fr_pc = "fetch"
    /\ \E o \in Outcomes(fr_req) :
          LET next == LoopIteration(o, attempt, maxRetries, fr_req)
          IN  /\ requests' = requests + 1
              /\ posts' = posts + (IF fr_req.method = "POST" THEN 1 ELSE 0)
              /\ lastOutcome' = o
              /\ rejections' = rejections + (IF o.t = "transportError" THEN 1 ELSE 0)
              /\ terminalSeen' =
                    IF /\ terminalSeen = 0
                       /\ o.t = "response"
                       /\ ~ResOk(o)
                       /\ ~Retryable(o.status)
                    THEN requests + 1
                    ELSE terminalSeen
              /\ CASE next.do = "return" ->
                        /\ fr_pc' = "returned"
                        /\ fr_result' = next.res
                        /\ UNCHANGED <<attempt, waits>>
                   [] next.do = "rethrow" ->
                        /\ fr_pc' = "thrown"
                        /\ fr_result' = next.err
                        /\ UNCHANGED <<attempt, waits>>
                   [] next.do = "backoff" ->
                        /\ fr_pc' = "sleep"
                        /\ waits' = Append(waits, backoffMs(attempt))
                        /\ attempt' = attempt + 1
                        /\ UNCHANGED fr_result
    /\ UNCHANGED <<fr_req, maxRetries, mainVars, pureVars>>

\* await sleep(backoffMs) is over: the loop goes round
SleepDone ==
    /\ fr_pc = "sleep"
    /\ fr_pc' = "fetch"
    /\ UNCHANGED <<fr_req, maxRetries, attempt, fr_result, waits, requests,
                   terminalSeen, rejections, lastOutcome, mainVars, posts, pureVars>>

(***************************************************************************)
(* The state before anything has been called.                              *)
(***************************************************************************)
RetryIdle ==
    /\ fr_pc = "idle" /\ fr_req = NoValue /\ maxRetries = DefaultMaxRetries
    /\ attempt = 0 /\ fr_result = NoValue /\ waits = << >> /\ requests = 0
    /\ terminalSeen = 0 /\ rejections = 0 /\ lastOutcome = NoValue

MainIdle ==
    /\ m_pc = "idle" /\ page = 1 /\ all = << >> /\ payload = NoValue
    /\ pagesRequested = << >> /\ pagesFetched = << >> /\ exitCode = 0

BpIdle == bp_in = NoValue /\ bp_out = NoValue
TempIdle == t_in = NoValue /\ t_out = NoValue
AlertIdle == patients = << >> /\ lists = NoValue

(***************************************************************************)
(* One call of fetchWithRetry, for every maxRetries up to the bound.       *)
(***************************************************************************)
RetryInit ==
    /\ MainIdle /\ BpIdle /\ TempIdle /\ AlertIdle /\ posts = 0
    /\ fr_pc = "fetch"
    /\ fr_req = PostSubmit(computeAlertLists(<< >>))
    /\ maxRetries \in 0..MaxRetriesBound
    /\ attempt = 0 /\ fr_result = NoValue /\ waits = << >> /\ requests = 0
    /\ terminalSeen = 0 /\ rejections = 0 /\ lastOutcome = NoValue

RetryNext == FetchSettles \/ SleepDone

RetrySpec == RetryInit /\ [][RetryNext]_vars

\* every awaited fetch settles and every sleep ends
FairRetrySpec == RetrySpec /\ WF_vars(RetryNext)

(***************************************************************************)
(* main: fetchAllPatients, computeAlertLists, submitAssessment.            *)
(***************************************************************************)
\* The caller has taken the response and moves on: the activation of
\* fetchWithRetry is gone.
ActivationEnds ==
    /\ fr_pc' = "idle" /\ fr_req' = NoValue /\ maxRetries' = DefaultMaxRetries
    /\ attempt' = 0 /\ fr_result' = NoValue /\ waits' = << >> /\ requests' = 0
    /\ terminalSeen' = 0 /\ rejections' = 0 /\ lastOutcome' = NoValue

\* main().catch(err => { console.error("ERROR:", err); process.exit(1); })
MainCatch ==
    /\ m_pc' = "failed"
    /\ exitCode' = 1
    /\ UNCHANGED <<retryVars, page, all, payload, posts, pagesRequested,
                   pagesFetched, pureVars>>

\* main is called and runs to its first await: fetchAllPatients(10) has set
\* page = 1 and all = [] and awaits fetchWithRetry for page 1.
MainInit ==
    /\ BpIdle /\ TempIdle /\ AlertIdle
    /\ m_pc = "awaitPage"
    /\ page = 1 /\ all = << >> /\ payload = NoValue /\ posts = 0
    /\ pagesRequested = << 1 >> /\ pagesFetched = << >> /\ exitCode = 0
    /\ fr_pc = "fetch"
    /\ fr_req = GetPatients(1)
    /\ maxRetries = DefaultMaxRetries
    /\ attempt = 0 /\ fr_result = NoValue /\ waits = << >> /\ requests = 0
    /\ terminalSeen = 0 /\ rejections = 0 /\ lastOutcome = NoValue

\* fetchAllPatients: fetchWithRetry returned res; res.json() is read and
\* the rest of the loop body runs.  On break, fetchAllPatients returns all,
\* main computes the payload and submitAssessment calls fetchWithRetry.
PageReturned ==
    /\ m_pc = "awaitPage"
    /\ fr_pc = "returned"
    /\ IF fr_result.body.t # "json" THEN MainCatch
       ELSE LET json == fr_result.body.v
                all2 == all \o DataOf(json)
            IN  /\ all' = all2
                /\ pagesFetched' = Append(pagesFetched, page)
                /\ IF ~HasNext(page, json)
                      THEN /\ payload' = computeAlertLists(all2)
                           /\ fetchWithRetry(PostSubmit(computeAlertLists(all2)),
                                             DefaultMaxRetries)
                           /\ m_pc' = "awaitSubmit"
                           /\ UNCHANGED page
                      ELSE /\ page' = page + 1
                           /\ m_pc' = "awaitPace"
                           /\ ActivationEnds
                           /\ UNCHANGED payload
                /\ UNCHANGED <<posts, pagesRequested, exitCode, pureVars>>

\* PageThrown with the error swallowed and the records fetched so far
\* submitted
PageThrown_SubmitsPartial ==
    /\ m_pc = "awaitPage"
    /\ fr_pc = "thrown"
    /\ payload' = computeAlertLists(all)
    /\ fetchWithRetry(PostSubmit(computeAlertLists(all)), DefaultMaxRetries)
    /\ m_pc' = "awaitSubmit"
    /\ UNCHANGED <<page, all, posts, pagesRequested, pagesFetched, exitCode,
                   pureVars>>

\* fetchAllPatients: fetchWithRetry threw; nothing catches before main's
\* own catch handler.
PageThrown ==
    /\ m_pc = "awaitPage"
    /\ fr_pc = "thrown"
    /\ MainCatch

\* fetchAllPatients: await sleep(150) is over; the loop goes round and calls
\* fetchWithRetry for the next page.
PaceDone ==
    /\ m_pc = "awaitPace"
    /\ fetchWithRetry(GetPatients(page), DefaultMaxRetries)
    /\ pagesRequested' = Append(pagesRequested, page)
    /\ m_pc' = "awaitPage"
    /\ UNCHANGED <<page, all, payload, posts, pagesFetched, exitCode, pureVars>>

\* submitAssessment: fetchWithRetry returned res; res.json() is read and
\* main prints the result and the counts.
SubmitReturned ==
    /\ m_pc = "awaitSubmit"
    /\ fr_pc = "returned"
    /\ IF fr_result.body.t # "json" THEN MainCatch
       ELSE /\ m_pc' = "done"
            /\ UNCHANGED <<retryVars, page, all, payload, posts, pagesRequested,
                           pagesFetched, exitCode, pureVars>>

\* submitAssessment: fetchWithRetry threw.
SubmitThrown ==
    /\ m_pc = "awaitSubmit"
    /\ fr_pc = "thrown"
    /\ MainCatch

MainNext ==
    \/ FetchSettles
    \/ SleepDone
    \/ PageReturned
    \/ PageThrown
    \/ PaceDone
    \/ SubmitReturned
    \/ SubmitThrown

MainSpec == MainInit /\ [][MainNext]_vars

(***************************************************************************)
(* bloodPressureRisk applied to one drawn input.                           *)
(***************************************************************************)
BpInit ==
    /\ RetryIdle /\ MainIdle /\ TempIdle /\ AlertIdle /\ posts = 0
    /\ bp_in \in BpInputs
    /\ bp_out = NoValue

BloodPressureRiskCall ==
    /\ bp_out = NoValue
    /\ bp_out' = bloodPressureRisk(bp_in)
    /\ UNCHANGED <<retryVars, mainVars, posts, bp_in, t_in, t_out, patients, lists>>

BpNext == BloodPressureRiskCall

BpSpec == BpInit /\ [][BpNext]_vars

(***************************************************************************)
(* temperatureRisk applied to two drawn inputs.                            *)
(***************************************************************************)
TempInit ==
    /\ RetryIdle /\ MainIdle /\ BpIdle /\ AlertIdle /\ posts = 0
    /\ t_in \in TempInputs \X TempInputs
    /\ t_out = NoValue

TemperatureRiskCall ==
    /\ t_out = NoValue
    /\ t_out' = << temperatureRisk(t_in[1]), temperatureRisk(t_in[2]) >>
    /\ UNCHANGED <<retryVars, mainVars, posts, bp_in, bp_out, t_in, patients, lists>>

TempNext == TemperatureRiskCall

TempSpec == TempInit /\ [][TempNext]_vars

(***************************************************************************)
(* computeAlertLists applied to one drawn sequence of records.             *)
(***************************************************************************)
AlertInit ==
    /\ RetryIdle /\ MainIdle /\ BpIdle /\ TempIdle /\ posts = 0
    /\ patients \in SeqsUpTo(PatientPool, MaxPatients)
    /\ lists = NoValue

ComputeAlertListsCall ==
    /\ lists = NoValue
    /\ lists' = computeAlertLists(patients)
    /\ UNCHANGED <<retryVars, mainVars, posts, bp_in, bp_out, t_in, t_out, patients>>

AlertNext == ComputeAlertListsCall

AlertSpec == AlertInit /\ [][AlertNext]_vars

(***************************************************************************)
(* Claims about bloodPressureRisk (BpSpec).                                *)
(***************************************************************************)
BpCalled == bp_out # NoValue
BpParsed == parseBloodPressure(bp_in)
BpIntegerReading ==
    /\ BpParsed # Null
    /\ BpParsed.systolic % 100 = 0
    /\ BpParsed.diastolic % 100 = 0
BpInGap ==
    /\ BpParsed.systolic >= 12000 /\ BpParsed.systolic <= 12900
    /\ BpParsed.diastolic >= 8000 /\ BpParsed.diastolic <= 8900

\* C4, as stated: a reading with integer systolic in [120,129] and integer
\* diastolic in [80,89] matches no bucket and gives {score: 0, invalid:
\* true}; every other integer reading gives a score in 1..4, invalid false.
C4_GapReadingsInvalid ==
    (BpCalled /\ BpIntegerReading) =>
        IF BpInGap THEN bp_out = [score |-> 0, invalid |-> TRUE]
        ELSE bp_out.score \in 1..4 /\ ~bp_out.invalid

\* C4, amended: every reading with integer systolic and diastolic gives a
\* score in 1..4 with invalid false; with systolic in [120,129] and
\* diastolic in [80,89] the reading matches stage 1 and gives score 3.
C4_IntegerReadingsScored ==
    (BpCalled /\ BpIntegerReading) =>
        /\ bp_out.score \in 1..4
        /\ ~bp_out.invalid
        /\ BpInGap => bp_out = [score |-> 3, invalid |-> FALSE]

\* "125/85" has been classified
C4_Witness == BpCalled /\ bp_in = BpOf(125, 85) /\ bp_out.score = 3

\* the scores of the buckets a reading matches
BpMatching(s, d) ==
    { b \in 1..4 :
        \/ b = 4 /\ (s >= 14000 \/ d >= 9000)
        \/ b = 3 /\ ((13000 <= s /\ s <= 13900) \/ (8000 <= d /\ d <= 8900))
        \/ b = 2 /\ (12000 <= s /\ s <= 12900 /\ d < 8000)
        \/ b = 1 /\ (s < 12000 /\ d < 8000) }

SetMax(S) == CHOOSE x \in S : \A y \in S : y <= x

\* C5: a parsed reading gets the score of the most severe bucket it
\* matches (4 stage 2, 3 stage 1, 2 elevated, 1 normal) with invalid false;
\* a reading matching no bucket, and an unparseable input, get
\* {score: 0, invalid: true}.
C5_HighestSeverityBucketWins ==
    BpCalled =>
        /\ bp_in \in BpMalformed => BpParsed = Null
        /\ IF BpParsed = Null THEN bp_out = [score |-> 0, invalid |-> TRUE]
           ELSE LET m == BpMatching(BpParsed.systolic, BpParsed.diastolic)
                IN  IF m = {} THEN bp_out = [score |-> 0, invalid |-> TRUE]
                    ELSE bp_out = [score |-> SetMax(m), invalid |-> FALSE]

\* "135/92" matches stage 1 and stage 2 and has been given stage 2's score
C5_Witness ==
    /\ BpCalled /\ bp_in = BpOf(135, 92)
    /\ BpMatching(13500, 9200) = {3, 4}
    /\ bp_out.score = 4

(***************************************************************************)
(* Claim about temperatureRisk (TempSpec).                                 *)
(***************************************************************************)
TempCalled == t_out # NoValue
TempNumeric(i) == ~t_out[i].invalid

\* C6: for finite numeric temperatures t1 <= t2 the score of t1 is at most
\* the score of t2, so a temperature with fever true has score at least 1.
C6_TemperatureMonotonic ==
    (TempCalled /\ TempNumeric(1) /\ TempNumeric(2)) =>
        /\ Number(t_in[1]).v <= Number(t_in[2]).v
              => t_out[1].score <= t_out[2].score
        /\ t_out[1].fever => t_out[1].score >= 1

(***************************************************************************)
(* Claims about computeAlertLists (AlertSpec).                             *)
(***************************************************************************)
AlertsComputed == lists # NoValue
Elems(q) == { q[i] : i \in 1..Len(q) }

\* a record carrying an identifier: not missing, not null, not empty
Carries(p, id) ==
    /\ p # Null
    /\ p.patient_id = id
    /\ id.t = "string"
    /\ id.v # << >>

Identifiers == { PatientId(p) : p \in PatientPool }

TotalScore(p) ==
    bloodPressureRisk(PatientBp(p)).score + temperatureRisk(PatientTemp(p)).score
        + ageRisk(PatientAge(p)).score

HasFeverReading(p) ==
    LET n == Number(PatientTemp(p))
    IN  /\ PatientTemp(p) \notin {Null, Undefined}
        /\ ~IsEmptyString(PatientTemp(p))
        /\ IsFinite(n)
        /\ n.v >= 9960

HasInvalidVital(p) ==
    \/ bloodPressureRisk(PatientBp(p)).invalid
    \/ temperatureRisk(PatientTemp(p)).invalid
    \/ ageRisk(PatientAge(p)).invalid

Records == Elems(patients)

\* C7: an identifier is in high_risk_patients iff a record carrying it has
\* total score >= 4, in fever_patients iff a record carrying it has a
\* finite numeric temperature >= 99.6, in data_quality_issues iff a record
\* carrying it has an invalid vital; records without an identifier
\* contribute nothing.
C7_AlertListsExact ==
    AlertsComputed =>
        /\ Elems(lists.high_risk_patients) =
              { id \in Identifiers :
                  \E p \in Records : Carries(p, id) /\ TotalScore(p) >= 4 }
        /\ Elems(lists.fever_patients) =
              { id \in Identifiers :
                  \E p \in Records : Carries(p, id) /\ HasFeverReading(p) }
        /\ Elems(lists.data_quality_issues) =
              { id \in Identifiers :
                  \E p \in Records : Carries(p, id) /\ HasInvalidVital(p) }

\* three records, one without identifier, and no list is empty
C7_Witness ==
    /\ AlertsComputed
    /\ Len(patients) = 3
    /\ \E p \in Records : \A id \in Identifiers : ~Carries(p, id)
    /\ \E p \in Records : Carries(p, IdP10) /\ TotalScore(p) = 4
    /\ lists.high_risk_patients # << >>
    /\ lists.fever_patients # << >>
    /\ lists.data_quality_issues # << >>

\* lexicographic order of two strings: at the first place where they
\* differ the first has the smaller code unit, or it has ended
LexBefore(a, b) ==
    \E k \in 1..Len(b) :
        /\ \A j \in 1..(k - 1) : j <= Len(a) /\ a[j] = b[j]
        /\ (k > Len(a) \/ CodeUnit(a[k]) < CodeUnit(b[k]))

StrictlyAscending(q) ==
    \A i \in 1..Len(q) : \A j \in 1..Len(q) : i < j => LexBefore(q[i].v, q[j].v)

NoDuplicates(q) ==
    \A i \in 1..Len(q) : \A j \in 1..Len(q) : i # j => q[i] # q[j]

\* C8: each of the three lists holds no identifier twice and is in
\* ascending lexicographic order.
C8_ListsSortedUnique ==
    AlertsComputed =>
        /\ NoDuplicates(lists.high_risk_patients)
        /\ StrictlyAscending(lists.high_risk_patients)
        /\ NoDuplicates(lists.fever_patients)
        /\ StrictlyAscending(lists.fever_patients)
        /\ NoDuplicates(lists.data_quality_issues)
        /\ StrictlyAscending(lists.data_quality_issues)

\* "p2" comes first and twice in the input, "p10" between, and the list
\* holds "p10" before "p2"
C8_Witness ==
    /\ AlertsComputed
    /\ Len(patients) = 3
    /\ PatientId(patients[1]) = IdP2
    /\ PatientId(patients[2]) = IdP10
    /\ PatientId(patients[3]) = IdP2
    /\ lists.high_risk_patients = << IdP10, IdP2 >>

(***************************************************************************)
(* Claims about fetchWithRetry (RetrySpec, FairRetrySpec).                 *)
(***************************************************************************)
RetryEnded == fr_pc \in {"returned", "thrown"}

\* C1: once a request has been answered by a non-success status outside
\* {429, 500, 503}, the call has failed on that response; when that request
\* was the first, exactly one request was issued and no wait was made.
C1_TerminalStatusFailsAtOnce ==
    terminalSeen > 0 =>
        /\ fr_pc = "thrown"
        /\ requests = terminalSeen
        /\ terminalSeen = 1 => waits = << >>

\* C2: when k retryable failures (statuses 429, 500, 503 and rejected
\* fetches, in any mix) are followed by a success response, that response
\* is returned after exactly k waits, k <= maxRetries, the i-th of them
\* (from 0) lasting min(8000, 500 * 2^i) ms; the waits never decrease and
\* never exceed 8000 ms, and both kinds of failure advance attempt.
C2_BackoffSchedule ==
    /\ (fr_pc = "returned" /\ terminalSeen = 0) =>
          LET k == requests - 1
          IN  /\ fr_result = lastOutcome
              /\ k <= maxRetries
              /\ rejections <= k
              /\ attempt = k
              /\ Len(waits) = k
              /\ \A i \in 0..(k - 1) :
                    /\ waits[i + 1] =
                          (IF 500 * (2 ^ i) < 8000 THEN 500 * (2 ^ i) ELSE 8000)
                    /\ waits[i + 1] <= 8000
                    /\ i > 0 => waits[i] <= waits[i + 1]
    \* a success response is returned as it comes
    /\ (lastOutcome # NoValue /\ lastOutcome.t = "response"
           /\ lastOutcome.status \in 200..299) =>
          fr_pc = "returned" /\ fr_result = lastOutcome
    \* up to maxRetries retryable failures do not end the call: each is
    \* followed by a wait and another request
    /\ (terminalSeen = 0 /\ requests \in 1..maxRetries /\ fr_pc # "returned") =>
          fr_pc \in {"sleep", "fetch"} /\ Len(waits) = requests

\* six failures, rejected fetches and statuses mixed, then a success: the
\* sixth wait is held at 8000 ms
C2_Witness ==
    /\ fr_pc = "returned" /\ terminalSeen = 0
    /\ requests = 7
    /\ rejections = 3
    /\ waits = << 500, 1000, 2000, 4000, 8000, 8000 >>

\* the error fetchWithRetry builds for, or receives from, an attempt
ErrorOfAttempt(o, req) ==
    IF o.t = "transportError" THEN o
    ELSE [t |-> "Error", status |-> o.status, url |-> req,
          text |-> IF o.body.t = "text" THEN o.body.v ELSE ""]

C3_Bounded ==
    /\ requests <= maxRetries + 1
    /\ Len(waits) <= maxRetries
    /\ (fr_pc = "thrown" /\ terminalSeen = 0) =>
          /\ requests = maxRetries + 1
          /\ lastOutcome.t = "transportError" \/ lastOutcome.status \in {429, 500, 503}
          /\ fr_result = ErrorOfAttempt(lastOutcome, fr_req)

\* C3: every call ends, given that every fetch settles and every sleep
\* ends; it issues at most maxRetries + 1 requests and makes at most
\* maxRetries waits; when every attempt fails retryably it fails after
\* exactly maxRetries + 1 requests with the error of the last attempt.
C3_TerminatesWithinBudget == []C3_Bounded /\ <>RetryEnded

\* every one of the seven attempts failed retryably, in a mix
C3_Witness ==
    /\ fr_pc = "thrown" /\ terminalSeen = 0
    /\ maxRetries = 6 /\ requests = 7
    /\ rejections = 2
    /\ fr_result.t = "Error" /\ fr_result.status = 500 /\ fr_result.text = ""

(***************************************************************************)
(* Claims about main and fetchAllPatients (MainSpec).                      *)
(***************************************************************************)
PageFetchFailed ==
    /\ fr_req # NoValue
    /\ fr_req.method = "GET"
    /\ \/ fr_pc = "thrown"
       \/ fr_pc = "returned" /\ m_pc = "failed"

\* C9: a POST is on the wire only after the pagination loop has ended with
\* every requested page fetched, and then its body is the payload computed
\* from all the records fetched; when a page fetch fails the run ends
\* failed, with exit status 1, and no POST is ever sent.
C9_NoPartialSubmission ==
    /\ posts > 0 =>
          /\ m_pc \in {"awaitSubmit", "done", "failed"}
          /\ pagesFetched = pagesRequested
          /\ Len(pagesFetched) = page
          /\ payload = computeAlertLists(all)
          /\ fr_req = PostSubmit(payload)
    /\ PageFetchFailed =>
          /\ posts = 0
          /\ payload = NoValue
          /\ m_pc \in {"awaitPage", "failed"}
    /\ m_pc = "failed" => exitCode = 1
    /\ m_pc # "failed" => exitCode = 0
    /\ pagesFetched # pagesRequested => posts = 0

\* the fetch of page 2 failed after its retries, with records of page 1 in
\* hand: the run has failed and nothing was posted
C9_Witness ==
    /\ m_pc = "failed" /\ exitCode = 1
    /\ fr_pc = "thrown" /\ fr_req = GetPatients(2)
    /\ requests = 7
    /\ all # << >>
    /\ posts = 0

\* whether the loop stops after page p with response json
StopsAfter(p, json) ==
    IF json = Null \/ json.pagination = Undefined THEN TRUE
    ELSE IF json.pagination.hasNext \in {Bool(TRUE), Bool(FALSE)}
        THEN json.pagination.hasNext = Bool(FALSE)
    ELSE IF json.pagination.totalPages = Undefined THEN TRUE
    ELSE ~(p * 100 < json.pagination.totalPages.v)

\* the records a response carries
DataArray(json) ==
    IF json # Null /\ json.data.t = "array" THEN json.data.v ELSE << >>

C10_PagesInOrder ==
    /\ pagesRequested = [i \in 1..Len(pagesRequested) |-> i]
    /\ pagesFetched = [i \in 1..Len(pagesFetched) |-> i]
    /\ Len(pagesRequested) = IF m_pc = "awaitPace" THEN page - 1 ELSE page
    /\ Len(pagesFetched) \in {Len(pagesRequested) - 1, Len(pagesRequested)}
    /\ m_pc = "awaitPage" => (fr_req.page = page /\ fr_req.method = "GET")

C10_PageStep ==
    /\ (m_pc = "awaitPage" /\ fr_pc = "returned" /\ fr_result.body.t = "json") =>
          /\ m_pc' # "failed"
          /\ all' = all \o DataArray(fr_result.body.v)
          /\ IF StopsAfter(page, fr_result.body.v)
                THEN m_pc' = "awaitSubmit" /\ page' = page
                     /\ pagesRequested' = pagesRequested
                ELSE m_pc' = "awaitPace" /\ page' = page + 1
    /\ m_pc = "awaitPace" =>
          /\ pagesRequested' = Append(pagesRequested, page)
          /\ fr_req' = GetPatients(page)
          /\ all' = all
    /\ m_pc \in {"awaitSubmit", "done", "failed"} =>
          /\ all' = all /\ page' = page /\ pagesRequested' = pagesRequested

\* C10: fetchAllPatients asks for pages 1, 2, 3, ... in order, each once;
\* it stops after the first page whose response has hasNext false or, with
\* hasNext missing or not boolean, does not have page < totalPages (a
\* missing totalPages stops at once), a boolean hasNext deciding alone; a
\* response without a data array adds nothing and does not fail; the
\* result is the data arrays of the pages, concatenated in page order.
C10_PaginationOrderAndStop == []C10_PagesInOrder /\ [][C10_PageStep]_vars

\* three pages fetched in order, of which one brought no record, and the
\* loop has ended
C10_Witness ==
    /\ m_pc = "awaitSubmit"
    /\ pagesRequested = << 1, 2, 3 >>
    /\ pagesFetched = << 1, 2, 3 >>
    /\ all = << RecordB, RecordA >>

====
